---- MODULE Spec2Model ----
(***************************************************************************)
(* Frame admission and adaptive performance controller of                  *)
(* ReactNativeMediapipePoseView (iOS native view).                         *)
(*                                                                         *)
(* Time (CACurrentMediaTime, a Double in seconds) is a count of clock      *)
(* ticks, TicksPerSec ticks to the second.  Every Double the controller    *)
(* computes (currentFPS, the mean of fpsHistory, the efficiency) is an     *)
(* exact rational <<numerator, denominator>> in lowest terms, so the       *)
(* comparisons with 0.8, 0.95, 1.0 s and 1/targetFPS are decided exactly.  *)
(*                                                                         *)
(* Each handler (a frame arrival, a prop setter, a closure run by the main *)
(* queue) is one atomic step.  The controller is constructed at time 0.    *)
(* Spec drives the controller with a capture source of constant frame      *)
(* duration over ten seconds, with prop updates between measurement        *)
(* windows; SpecGate drives it with frames at arbitrary spacings over two  *)
(* seconds, with targetFPS updates at any time.  SpecReport is Spec with    *)
(* the two FPS-report props and a capture source that changes its rate     *)
(* in place of the targetFPS and autoAdjustFPS props.                      *)
(*                                                                         *)
(* SpecPose drives the pose pipeline: the controller has been up for       *)
(* PoseStart ticks when it is constructed and has received its mount-time  *)
(* props; frames arrive 1 or 2 ticks apart for PoseTime ticks, the blocks  *)
(* of processingQueue (detectAsync), the callbacks of the pose landmarker  *)
(* and the closures of the main queue run in any order between them.       *)
(* setupPoseLandmarker is taken to have succeeded, Date() and              *)
(* CACurrentMediaTime() to be one clock, and the drawing of the overlay    *)
(* layers is left out.                                                     *)
(***************************************************************************)
EXTENDS Integers, Sequences, FiniteSets, TLC

\* ---------------------------------------------------------------- bounds
TicksPerSec == 60
MaxTime == 600
GateTime == 120
MaxHostCalls == 2
MaxGateCalls == 1
MaxWindowFrames == 6
MaxQueue == 0
PoseStart == 60
PoseTime == 3
MaxPoseCalls == 1
MaxOutstanding == 2
MaxReportCalls == 1
HistoryTime == 720
MaxHistoryCalls == 2
MaxPropCalls == 3
RaceTime == 360
MaxRaceCalls == 1
TierTime == 360
MaxTierCalls == 1

\* ------------------------------------------------------- program constants
performanceCheckInterval == 5
defaultFpsReportThrottleMs == 500
defaultFpsChangeThreshold == 2
defaultPoseDataThrottleMs == 100

\* ------------------------------------------------------------- input sets
\* Values the host passes to the targetFPS prop.
FpsInputs == {0, 12, 18, 20, 100}
\* Hardware facts read at construction: cores, memory in units of 10^6 bytes.
CoreInputs == {2, 4, 6}
MemoryInputs == {2000, 3000, 4000}
\* Frame durations of the capture source, in ticks (20, 15 and 1 fps at 60
\* ticks to the second).
FrameDurations == {3, 4, TicksPerSec}
\* Values the host passes to the targetFPS prop while frames arrive at
\* arbitrary spacings (admission intervals of 60, 20, 10 and 1 ticks).
HistoryDurations == {TicksPerSec \div 3, TicksPerSec \div 2, TicksPerSec}
PropThrottleInputs == {-100, 0, 1, 16, 100, 1000}
PropThresholdInputs == {<<-1, 1>>, <<0, 1>>, <<1, 1000>>, <<1, 2>>, <<3, 1>>}
\* #available(iOS 14.0, *): the pod's deployment target is iOS 15.1.
SystemVersions == {TRUE}
CameraSwitchOutcomes == {"switched", "noCamera", "cannotAdd", "failed"}
GateFpsInputs == {0, 3, 6, 100}
\* Arbitrary spacings between two frames, in ticks.
GateSteps == {0, 10, 20, TicksPerSec}
\* Spacings between two frames whose timestamps advance, in ticks.
LiveSteps == {TicksPerSec \div 3, TicksPerSec}
\* Spacings between two frames while the pose pipeline runs, in ticks.
PoseSteps == {1, 2}
\* Values the host passes to the poseDataThrottleMs prop.
PoseThrottleInputs == {0, 50, 100}
\* Values the host passes to the fpsReportThrottleMs and fpsChangeThreshold props.
ReportThrottleInputs == {0, 500, 1000, 2000}
ChangeThresholdInputs == {0, 2, 100}
\* What the conversion of a frame and the landmarker's detectAsync can do, and
\* what the landmarker's callback can carry.
DispatchOutcomes == {"accepted", "conversionFailed", "rejected"}
CallbackOutcomes == {"result", "error", "noResult"}

\* -------------------------------------------------------------- rationals
RECURSIVE GCD(_, _)
GCD(a, b) == IF b = 0 THEN a ELSE GCD(b, a % b)

Abs(x) == IF x < 0 THEN -x ELSE x
Max(a, b) == IF a >= b THEN a ELSE b
Min(a, b) == IF a <= b THEN a ELSE b

\* n/d in lowest terms, d > 0.
Q(n, d) ==
    LET g == GCD(Abs(n), Abs(d))
        s == IF d < 0 THEN -1 ELSE 1
    IN  IF n = 0 THEN <<0, 1>> ELSE <<(s * n) \div g, (s * d) \div g>>

AddQ(a, b) == Q(a[1] * b[2] + b[1] * a[2], a[2] * b[2])
SubQ(a, b) == Q(a[1] * b[2] - b[1] * a[2], a[2] * b[2])
AbsQ(a) == <<Abs(a[1]), a[2]>>
DivQ(a, k) == Q(a[1], a[2] * k)
LtQ(a, b) == a[1] * b[2] < b[1] * a[2]
LeQ(a, b) == a[1] * b[2] <= b[1] * a[2]
MaxQ(a, b) == IF LeQ(b, a) THEN a ELSE b

RECURSIVE SumQ(_)
SumQ(s) == IF s = <<>> THEN <<0, 1>> ELSE AddQ(Head(s), SumQ(Tail(s)))

\* ------------------------------------------------------------- DeviceTier
Tiers == {"high", "medium", "low", "unknown"}

recommendedFPS(tier) ==
    CASE tier = "high" -> 60
      [] tier = "medium" -> 30
      [] tier = "low" -> 15
      [] OTHER -> 30

\* Mutant: the field initialiser (30) stays in force.
DefaultTargetFPS_fieldInitialiser(tier) == 30

\* detectDeviceCapability: targetFPS = deviceTier.recommendedFPS.
DefaultTargetFPS(tier) == recommendedFPS(tier)

\* Mutant: the memory size alone decides.
detectDeviceCapability_memoryOnly(processorCount, physicalMemory, iOS14) ==
    IF iOS14
    THEN IF physicalMemory >= 4000 THEN "high"
         ELSE IF physicalMemory >= 3000 THEN "medium"
         ELSE "low"
    ELSE "low"

\* The tier detectDeviceCapability assigns.
detectDeviceCapability(processorCount, physicalMemory, iOS14) ==
    IF iOS14
    THEN IF processorCount >= 6 /\ physicalMemory >= 4000 THEN "high"
         ELSE IF processorCount >= 4 /\ physicalMemory >= 3000 THEN "medium"
         ELSE "low"
    ELSE "low"


\* ------------------------------------------------------------------ state
VARIABLES
    now,                  \* CACurrentMediaTime(), in ticks
    frameDuration,        \* spacing of the capture source's frames, in ticks
    frameCount,           \* frames counted in the open measurement window
    lastFPSTime,          \* start of the open measurement window
    currentFPS,           \* last measured FPS (rational)
    targetFPS,
    lastFrameTime,        \* time of the last admitted frame
    fpsHistory,           \* sequence of measured FPS, at most 10
    lastPerformanceCheck,
    isAutoAdjustEnabled,
    deviceTier,
    readTargetFPS,        \* targetFPS as read by a frame's handler in progress, -1 when none is
    isPoseDetectionEnabled,
    lastReportedFPS,
    fpsChangeThreshold,
    lastFPSReportTime,
    fpsReportThrottleMs,
    processingQueue,      \* correlation timestamps handed to processingQueue.async
    enablePoseDataStreaming,
    poseDataThrottleMs,
    lastPoseDataSentTime,
    enableDetailedLogs,
    frameStartTimes,      \* PoseDetectionService: correlation timestamp -> start time
    inFlight,             \* the landmarker: timestamps accepted, callback not yet made
    mainQueue,            \* closures pending on DispatchQueue.main
    delivered,            \* the event the last step handed to the host, if any
    lastOp,               \* observation: the last operation and what it decided
    admitLog,             \* observation: admissions of the last second at the current target
    lastAdjustTime,       \* observation: time of the last adjustment event, -1 if none
    adjustDirs,           \* observation: adjustment directions since the measured FPS or the host last changed
    hostCalls,            \* number of host prop updates so far
    lastPose,             \* observation: what the last step of the pose pipeline did
    poseHistory           \* observation: facts about the pose pipeline's past

govVars == <<frameCount, lastFPSTime, currentFPS, targetFPS, lastFrameTime,
             fpsHistory, lastPerformanceCheck, isAutoAdjustEnabled, deviceTier,
             readTargetFPS>>
reportVars == <<lastReportedFPS, fpsChangeThreshold, lastFPSReportTime, fpsReportThrottleMs>>
poseVars == <<isPoseDetectionEnabled, processingQueue, enablePoseDataStreaming,
              poseDataThrottleMs, lastPoseDataSentTime, enableDetailedLogs,
              frameStartTimes, inFlight>>
obsVars == <<lastOp, admitLog, lastAdjustTime, adjustDirs, hostCalls, lastPose, poseHistory>>
vars == <<now, frameDuration, govVars, reportVars, poseVars, mainQueue, delivered, obsVars>>

\* ------------------------------------------------- closures and host events
NoOp == [op |-> "init", arg |-> 0, measured |-> FALSE, reported |-> FALSE,
         cycle |-> FALSE, decision |-> "none", admitted |-> FALSE,
         dispatched |-> FALSE]

\* A closure handed to DispatchQueue.main.async: what it captured when queued.
Closure(event, autoAdjusted, newTargetFPS, reason) ==
    [event |-> event, autoAdjusted |-> autoAdjusted,
     newTargetFPS |-> newTargetFPS, reason |-> reason]

FpsReportClosure == Closure("onFrameProcessed", FALSE, 0, "")
\* Mutant: an adjustment announces the device capability again.
AdjustmentClosure_capability(newTargetFPS, reason) ==
    Closure("onDeviceCapability", TRUE, newTargetFPS, reason)

AdjustmentClosure(newTargetFPS, reason) ==
    Closure("onFrameProcessed", TRUE, newTargetFPS, reason)
DeviceCapabilityClosure == Closure("onDeviceCapability", FALSE, 0, "")

\* The onDeviceCapability closure with the hardware readings it captured.
CapabilityClosure(processorCount, physicalMemory) ==
    [event |-> "onDeviceCapability", autoAdjusted |-> FALSE, newTargetFPS |-> 0,
     reason |-> "", processorCount |-> processorCount,
     physicalMemory |-> physicalMemory]

\* The onError closure of switchCameraInternal.
CameraErrorClosure(error) == [event |-> "onError", error |-> error]

\* The closures of the PoseDetectionServiceDelegate methods.
PoseDetectedClosure(processingTime, currentTime) ==
    [event |-> "onPoseDetected", processingTime |-> processingTime,
     timestamp |-> currentTime]
PoseServiceErrorClosure(error, processingTime) ==
    [event |-> "onPoseServiceError", error |-> error,
     processingTime |-> processingTime]
PoseServiceLogClosure(message, level) ==
    [event |-> "onPoseServiceLog", message |-> message, level |-> level]

NoPose == [op |-> "none", ts |-> -1, outcome |-> "", known |-> FALSE,
           startTime |-> -1, processingTime |-> <<0, 1>>, enabled |-> FALSE,
           streaming |-> FALSE, sinceLastSent |-> 0, throttleMs |-> 0,
           emitted |-> FALSE]

\* ----------------------------------------------------- governor operators
\* Mutant: the lower clamp is missing.
ClampFPS_noFloor(fps) == Min(fps, 60)

\* setTargetFPS: the value stored for a requested fps.
ClampFPS(fps) == Max(1, Min(fps, 60))

\* Mutant: the elapsed time is taken in milliseconds.
ShouldProcessFrame_ms(currentTime, last, target) ==
    Q(1, target)[1] * TicksPerSec <= (currentTime - last) * 1000 * Q(1, target)[2]

\* Mutant: the interval must be exceeded.
ShouldProcessFrame_strict(currentTime, last, target) ==
    LtQ(Q(1, target), Q(currentTime - last, TicksPerSec))

\* Mutant: the interval test is made only while pose detection is enabled.
ShouldProcessFrame_whenEnabled(currentTime, last, target) ==
    isPoseDetectionEnabled /\ LeQ(Q(1, target), Q(currentTime - last, TicksPerSec))

\* shouldProcessFrame: currentTime - lastFrameTime >= 1.0 / Double(targetFPS).
ShouldProcessFrame(currentTime, last, target) ==
    LeQ(Q(1, target), Q(currentTime - last, TicksPerSec))

\* Mutant: frames are counted only while pose detection is enabled.
CountFrame_whenEnabled(count, enabled) == IF enabled THEN count + 1 ELSE count

\* captureOutput calls calculateFPS first, before shouldProcessFrame and the
\* isPoseDetectionEnabled test: frameCount += 1 for every frame.
CountFrame(count, enabled) == count + 1

\* calculateFPS: deltaTime >= 1.0.
WindowElapsed(deltaTime) == deltaTime >= TicksPerSec

\* Mutant: the frame that closes the window is not counted.
MeasuredFPS_excludesClosing(count, deltaTime) == Q((count - 1) * TicksPerSec, deltaTime)

\* calculateFPS: Double(frameCount) / deltaTime.
MeasuredFPS(count, deltaTime) == Q(count * TicksPerSec, deltaTime)

\* Mutant: beyond 10 readings the newest is dropped.
PushHistory_dropsNewest(history, fps) ==
    IF Len(history) >= 10 THEN history ELSE Append(history, fps)

\* calculateFPS: append, and drop the oldest reading beyond 10.
PushHistory(history, fps) ==
    LET appended == Append(history, fps)
    IN  IF Len(appended) > 10 THEN Tail(appended) ELSE appended

\* Mutant: the time since the last report is not looked at.
ShouldReportFPS_changeOnly(fps, lastFps, threshold, currentTime, lastReport, throttleMs) ==
    LeQ(threshold, AbsQ(SubQ(fps, lastFps)))

\* Mutant: both gates must be open.
ShouldReportFPS_both(fps, lastFps, threshold, currentTime, lastReport, throttleMs) ==
    /\ LeQ(threshold, AbsQ(SubQ(fps, lastFps)))
    /\ (currentTime - lastReport) * 1000 >= throttleMs * TicksPerSec

\* calculateFPS: fpsChange >= fpsChangeThreshold || timeSinceLastReport >= fpsReportThrottleMs.
ShouldReportFPS(fps, lastFps, threshold, currentTime, lastReport, throttleMs) ==
    \/ LeQ(threshold, AbsQ(SubQ(fps, lastFps)))
    \/ (currentTime - lastReport) * 1000 >= throttleMs * TicksPerSec

\* Mutant: a change of the target starts the history afresh.
HistoryOnTargetChange_clears(history, changed) ==
    IF changed THEN <<>> ELSE history

\* setTargetFPS assigns targetFPS and nothing else: the history stays.
HistoryOnTargetChange(history, changed) == history

\* Mutant: only the regular report writes the report state.
UpdatesReportState_reportOnly(report, decision) == report

\* lastReportedFPS and lastFPSReportTime are written by calculateFPS when it
\* reports and by both branches of checkPerformanceAndAdjust.
UpdatesReportState(report, decision) == report \/ decision # "none"

\* Mutant: the flag is read inverted.
CheckDue_whenDisabled(enabled, currentTime, lastCheck) ==
    ~enabled /\ currentTime - lastCheck >= performanceCheckInterval * TicksPerSec

\* Mutant: the cycle runs while auto-adjust is disabled.
CheckDue_ignoresEnabled(enabled, currentTime, lastCheck) ==
    currentTime - lastCheck >= performanceCheckInterval * TicksPerSec

\* Mutant: the cycle runs on every measurement.
CheckDue_noInterval(enabled, currentTime, lastCheck) == enabled

\* checkPerformanceAndAdjust: the guard of the adjustment cycle.
CheckDue(enabled, currentTime, lastCheck) ==
    enabled /\ currentTime - lastCheck >= performanceCheckInterval * TicksPerSec

AverageFPS(history) == DivQ(SumQ(history), Len(history))

\* averageFPS / Double(targetFPS)
Efficiency(history, target) == DivQ(AverageFPS(history), target)

\* Mutant: the degradation branch does not test targetFPS > 15.
Decision_noFloorGuard(history, target, recommended) ==
    IF Len(history) >= 5
    THEN IF LtQ(Efficiency(history, target), <<4, 5>>)
         THEN "lower"
         ELSE IF LtQ(<<19, 20>>, Efficiency(history, target)) /\ target < recommended
         THEN "raise"
         ELSE "none"
    ELSE "none"

\* Mutant: the thresholds are inclusive.
Decision_inclusive(history, target, recommended) ==
    IF Len(history) >= 5
    THEN IF LeQ(Efficiency(history, target), <<4, 5>>) /\ target > 15
         THEN "lower"
         ELSE IF LeQ(<<19, 20>>, Efficiency(history, target)) /\ target < recommended
         THEN "raise"
         ELSE "none"
    ELSE "none"

\* checkPerformanceAndAdjust: which branch an adjustment cycle takes.
Decision(history, target, recommended) ==
    IF Len(history) >= 5
    THEN IF LtQ(Efficiency(history, target), <<4, 5>>) /\ target > 15
         THEN "lower"
         ELSE IF LtQ(<<19, 20>>, Efficiency(history, target)) /\ target < recommended
         THEN "raise"
         ELSE "none"
    ELSE "none"

\* Mutants: the floor, the step and the cap of the new target.
LoweredTarget_noFloor(target) == target - 5
LoweredTarget_by10(target) == Max(15, target - 10)
RaisedTarget_noCap(target, recommended) == target + 5

\* checkPerformanceAndAdjust: the newTargetFPS of each branch.
LoweredTarget(target) == Max(15, target - 5)
RaisedTarget(target, recommended) == Min(recommended, target + 5)

\* Mutant: the adjustment event is emitted only with a regular report.
EmitsAdjustment_throttled(decision, report) == decision # "none" /\ report

\* checkPerformanceAndAdjust: each branch that changes targetFPS hands its
\* event to the main queue, whatever calculateFPS decided about the report.
EmitsAdjustment(decision, report) == decision # "none"

Reason(decision) ==
    IF decision = "lower" THEN "Performance optimization"
    ELSE "Performance headroom available"

\* ------------------------------------------------ pose pipeline operators
\* captureOutput: Int(Date().timeIntervalSince1970 * 1000).
CurrentTimeMs(t) == (t * 1000) \div TicksPerSec

\* Mutant: every admitted frame is dispatched.
ShouldDispatch_ignoresEnabled(admit, enabled) == admit

\* captureOutput: guard shouldProcessFrame(), then if isPoseDetectionEnabled.
ShouldDispatch(admit, enabled) == admit /\ enabled

\* Mutant: the value is stored as given.
ClampPoseThrottle_noFloor(throttleMs) == throttleMs

\* setPoseDataThrottleMs: max(16, throttleMs).
ClampPoseThrottle(throttleMs) == Max(16, throttleMs)

\* Mutant: the elapsed ticks are taken for seconds.
PoseThrottlePasses_ticks(currentTime, lastSent, throttleMs) ==
    (currentTime - lastSent) * 1000 >= throttleMs

\* didDetectPose: (currentTime - lastPoseDataSentTime) * 1000 >= Double(poseDataThrottleMs).
PoseThrottlePasses(currentTime, lastSent, throttleMs) ==
    (currentTime - lastSent) * 1000 >= throttleMs * TicksPerSec

\* Mutant: the streaming flag is not consulted.
PoseEmits_ignoresStreaming(enabled, streaming, currentTime, lastSent, throttleMs) ==
    enabled /\ PoseThrottlePasses(currentTime, lastSent, throttleMs)

\* didDetectPose: the guard, the streaming test and the throttle test.
PoseEmits(enabled, streaming, currentTime, lastSent, throttleMs) ==
    enabled /\ streaming /\ PoseThrottlePasses(currentTime, lastSent, throttleMs)

\* didFailWithError: error?.localizedDescription ?? "Unknown error".
ErrorDescription(outcome) ==
    IF outcome = "error" THEN "localizedDescription" ELSE "Unknown error"

\* Mutant: failures are reported only while pose detection is enabled.
didFailWithError_whenEnabled(error, processingTime) ==
    IF isPoseDetectionEnabled
    THEN <<PoseServiceErrorClosure(error, processingTime)>>
    ELSE <<>>

\* didFailWithError: the closure handed to the main queue.
didFailWithError(error, processingTime) ==
    <<PoseServiceErrorClosure(error, processingTime)>>

\* Mutant: log messages are sent whatever the flag is.
didLogMessage_always(message, level) == <<PoseServiceLogClosure(message, level)>>

\* didLogMessage: the closure handed to the main queue, if any.
didLogMessage(message, level) ==
    IF enableDetailedLogs THEN <<PoseServiceLogClosure(message, level)>> ELSE <<>>

\* private var frameStartTimes: [Int: CFTimeInterval] = [:]
NoRecords == [k \in {} |-> 0]

\* Mutant: removeValue leaves the dictionary as it is.
RemoveRecord_keeps(records, ts) == records

\* frameStartTimes.removeValue(forKey:): the dictionary that is left.
RemoveRecord(records, ts) == [k \in DOMAIN records \ {ts} |-> records[k]]

\* frameStartTimes[timeStamps] = CACurrentMediaTime().
SetRecord(records, ts, startTime) ==
    [k \in DOMAIN records \cup {ts} |-> IF k = ts THEN startTime ELSE records[k]]

\* Mutant: a rejected submission keeps its record.
AfterDispatch_keepsRejected(records, ts, startTime, outcome) ==
    IF outcome = "conversionFailed" THEN records
    ELSE SetRecord(records, ts, startTime)

\* detectAsync: frameStartTimes after the call, by what the conversion and the
\* landmarker did.
AfterDispatch(records, ts, startTime, outcome) ==
    IF outcome = "conversionFailed" THEN records
    ELSE IF outcome = "rejected" THEN RemoveRecord(SetRecord(records, ts, startTime), ts)
    ELSE SetRecord(records, ts, startTime)

\* Mutant: the callback takes the start time of the oldest record.
StartTime_oldest(records, ts, endTime) ==
    IF DOMAIN records = {} THEN endTime
    ELSE records[CHOOSE k \in DOMAIN records : \A j \in DOMAIN records : k <= j]

\* didFinishDetection: frameStartTimes.removeValue(forKey:) ?? endTime.
StartTime(records, ts, endTime) ==
    IF ts \in DOMAIN records THEN records[ts] ELSE endTime

\* Mutant: the processing time is left in seconds.
ProcessingTime_seconds(startTime, endTime) == Q(endTime - startTime, TicksPerSec)

\* didFinishDetection: (endTime - startTime) * 1000.
ProcessingTime(startTime, endTime) == Q((endTime - startTime) * 1000, TicksPerSec)

\* ------------------------------------------------------------------- init
\* The state after init(appContext:): field initialisers, then
\* detectDeviceCapability(), which sets the tier and the tier's target and
\* queues the device-capability event.
InitFieldsQueueing(tier, capability) ==
    /\ frameCount = 0
    /\ lastFPSTime = 0
    /\ currentFPS = <<0, 1>>
    /\ deviceTier = tier
    /\ readTargetFPS = -1
    /\ targetFPS = DefaultTargetFPS(tier)
    /\ lastFrameTime = 0
    /\ fpsHistory = <<>>
    /\ lastPerformanceCheck = 0
    /\ isAutoAdjustEnabled = TRUE
    /\ lastReportedFPS = <<0, 1>>
    /\ fpsChangeThreshold = <<defaultFpsChangeThreshold, 1>>
    /\ lastFPSReportTime = 0
    /\ fpsReportThrottleMs = defaultFpsReportThrottleMs
    /\ processingQueue = <<>>
    /\ mainQueue = <<capability>>
    /\ delivered = <<>>
    /\ lastOp = NoOp
    /\ admitLog = <<>>
    /\ lastAdjustTime = -1
    /\ adjustDirs = {}
    /\ hostCalls = 0
    /\ lastPoseDataSentTime = 0
    /\ enableDetailedLogs = FALSE
    /\ frameStartTimes = NoRecords
    /\ inFlight = {}
    /\ lastPose = NoPose

InitFields(tier) == InitFieldsQueueing(tier, DeviceCapabilityClosure)

\* The props of the pose pipeline as the host left them.
PoseProps(enabled, streaming, throttleMs) ==
    /\ isPoseDetectionEnabled = enabled
    /\ enablePoseDataStreaming = streaming
    /\ poseDataThrottleMs = throttleMs
    /\ poseHistory = [streamed |-> streaming, dispatchFailed |-> FALSE, lastEmit |-> -1]

InitController(tier) ==
    /\ now = 0
    /\ InitFields(tier)
    /\ PoseProps(FALSE, FALSE, defaultPoseDataThrottleMs)

Init ==
    /\ \E cores \in CoreInputs, memory \in MemoryInputs, iOS14 \in SystemVersions :
           InitController(detectDeviceCapability(cores, memory, iOS14))
    /\ frameDuration \in FrameDurations

\* A camera delivering one, two or three frames a second.
InitHistory ==
    /\ \E cores \in CoreInputs, memory \in MemoryInputs, iOS14 \in SystemVersions :
           InitController(detectDeviceCapability(cores, memory, iOS14))
    /\ frameDuration \in HistoryDurations

\* A camera delivering one frame a second.
InitRace ==
    /\ \E cores \in CoreInputs, memory \in MemoryInputs, iOS14 \in SystemVersions :
           InitController(detectDeviceCapability(cores, memory, iOS14))
    /\ frameDuration = TicksPerSec

\* The construction on every hardware, the device-capability closure
\* holding the readings of ProcessInfo.
InitTier ==
    /\ now = 0
    /\ frameDuration \in HistoryDurations
    /\ \E cores \in CoreInputs, memory \in MemoryInputs, iOS14 \in SystemVersions :
           InitFieldsQueueing(detectDeviceCapability(cores, memory, iOS14),
                              CapabilityClosure(cores, memory))
    /\ PoseProps(FALSE, FALSE, defaultPoseDataThrottleMs)

InitGate ==
    /\ \E cores \in CoreInputs, memory \in MemoryInputs, iOS14 \in SystemVersions :
           InitController(detectDeviceCapability(cores, memory, iOS14))
    /\ frameDuration = 1

\* The controller constructed PoseStart ticks after boot, after the host has
\* applied its mount-time props.
InitPose ==
    /\ now = PoseStart
    /\ frameDuration = 1
    /\ \E cores \in CoreInputs, memory \in MemoryInputs, iOS14 \in SystemVersions :
           InitFields(detectDeviceCapability(cores, memory, iOS14))
    /\ \E enabled \in BOOLEAN, streaming \in BOOLEAN, throttleMs \in PoseThrottleInputs :
           PoseProps(enabled, streaming, ClampPoseThrottle(throttleMs))

\* ---------------------------------------------------------------- actions
\* Admissions of the last second, while the target has not changed.
LogAdmission(log, t, admit, targetChanged) ==
    LET kept == IF targetChanged THEN <<>>
                ELSE SelectSeq(log, LAMBDA a : t - a <= TicksPerSec)
    IN  IF admit THEN Append(kept, t) ELSE kept

\* captureOutput(_:didOutput:from:) for a frame arriving dt ticks after the
\* previous step: calculateFPS (with checkPerformanceAndAdjust), then
\* shouldProcessFrame, then the dispatch to the pose detection service.
\* The handler has read targetFPS as `read` for checkPerformanceAndAdjust.
captureOutputReading(dt, read) ==
    LET t == now + dt
        count == CountFrame(frameCount, isPoseDetectionEnabled)
        deltaTime == t - lastFPSTime
        measured == WindowElapsed(deltaTime)
        fps == IF measured THEN MeasuredFPS(count, deltaTime) ELSE currentFPS
        history == IF measured THEN PushHistory(fpsHistory, fps) ELSE fpsHistory
        report == measured /\ ShouldReportFPS(fps, lastReportedFPS, fpsChangeThreshold,
                                              t, lastFPSReportTime, fpsReportThrottleMs)
        cycle == measured /\ CheckDue(isAutoAdjustEnabled, t, lastPerformanceCheck)
        decision == IF cycle
                    THEN Decision(history, read, recommendedFPS(deviceTier))
                    ELSE "none"
        newTargetFPS == IF decision = "lower" THEN LoweredTarget(read)
                        ELSE RaisedTarget(read, recommendedFPS(deviceTier))
        target == IF decision = "none" THEN targetFPS ELSE ClampFPS(newTargetFPS)
        admit == ShouldProcessFrame(t, lastFrameTime, target)
        dispatch == ShouldDispatch(admit, isPoseDetectionEnabled)
        closures == (IF report THEN <<FpsReportClosure>> ELSE <<>>)
                    \o (IF EmitsAdjustment(decision, report)
                        THEN <<AdjustmentClosure(newTargetFPS, Reason(decision))>>
                        ELSE <<>>)
    IN  /\ now' = t
        /\ frameCount' = IF measured THEN 0 ELSE count
        /\ lastFPSTime' = IF measured THEN t ELSE lastFPSTime
        /\ currentFPS' = fps
        /\ fpsHistory' = HistoryOnTargetChange(history, target # targetFPS)
        /\ lastReportedFPS' = IF UpdatesReportState(report, decision)
                              THEN fps ELSE lastReportedFPS
        /\ lastFPSReportTime' = IF UpdatesReportState(report, decision)
                                THEN t ELSE lastFPSReportTime
        /\ lastPerformanceCheck' = IF cycle THEN t ELSE lastPerformanceCheck
        /\ targetFPS' = target
        /\ lastFrameTime' = IF admit THEN t ELSE lastFrameTime
        /\ processingQueue' = IF dispatch
                              THEN Append(processingQueue, CurrentTimeMs(t))
                              ELSE processingQueue
        /\ mainQueue' = mainQueue \o closures
        /\ delivered' = <<>>
        /\ lastOp' = [op |-> "captureOutput", arg |-> dt, measured |-> measured,
                      reported |-> report, cycle |-> cycle, decision |-> decision,
                      admitted |-> admit, dispatched |-> dispatch]
        /\ admitLog' = LogAdmission(admitLog, t, admit, target # targetFPS)
        /\ lastAdjustTime' = IF decision # "none" THEN t ELSE lastAdjustTime
        /\ adjustDirs' = LET since == IF measured /\ fps # currentFPS THEN {} ELSE adjustDirs
                         IN  IF decision # "none" THEN since \cup {decision} ELSE since
        /\ lastPose' = NoPose
        /\ UNCHANGED <<frameDuration, isAutoAdjustEnabled, deviceTier,
                       isPoseDetectionEnabled, fpsChangeThreshold,
                       fpsReportThrottleMs, hostCalls, enablePoseDataStreaming,
                       poseDataThrottleMs, lastPoseDataSentTime,
                       enableDetailedLogs, frameStartTimes, inFlight,
                       poseHistory>>

captureOutput(dt) ==
    /\ captureOutputReading(dt, targetFPS)
    /\ UNCHANGED readTargetFPS

\* The targetFPS prop: setTargetFPS(fps).
setTargetFPS(fps) ==
    /\ targetFPS' = ClampFPS(fps)
    /\ hostCalls' = hostCalls + 1
    /\ delivered' = <<>>
    /\ lastOp' = [NoOp EXCEPT !.op = "setTargetFPS", !.arg = fps]
    /\ admitLog' = IF targetFPS' # targetFPS THEN <<>> ELSE admitLog
    /\ adjustDirs' = {}
    /\ lastPose' = NoPose
    /\ fpsHistory' = HistoryOnTargetChange(fpsHistory, targetFPS' # targetFPS)
    /\ UNCHANGED <<now, frameDuration, frameCount, lastFPSTime, currentFPS,
                   lastFrameTime, lastPerformanceCheck,
                   isAutoAdjustEnabled, deviceTier, readTargetFPS, reportVars,
                   poseVars, mainQueue, lastAdjustTime, poseHistory>>

\* Mutant: the history is cleared whatever the new value is.
HistoryOnAutoAdjust_clearsAlways(history, enabled) == <<>>

\* setAutoAdjustFPS: fpsHistory.removeAll() when the new value is false.
HistoryOnAutoAdjust(history, enabled) ==
    IF ~enabled THEN <<>> ELSE history

\* The autoAdjustFPS prop: setAutoAdjustFPS(enabled).
setAutoAdjustFPS(enabled) ==
    /\ isAutoAdjustEnabled' = enabled
    /\ fpsHistory' = HistoryOnAutoAdjust(fpsHistory, enabled)
    /\ hostCalls' = hostCalls + 1
    /\ delivered' = <<>>
    /\ lastOp' = [NoOp EXCEPT !.op = "setAutoAdjustFPS", !.arg = IF enabled THEN 1 ELSE 0]
    /\ lastPose' = NoPose
    /\ UNCHANGED <<now, frameDuration, frameCount, lastFPSTime, currentFPS,
                   targetFPS, lastFrameTime, lastPerformanceCheck, deviceTier,
                   readTargetFPS, reportVars, poseVars, mainQueue, admitLog,
                   lastAdjustTime, adjustDirs, poseHistory>>

\* DispatchQueue.main runs the oldest pending closure; the closure reads
\* self.currentFPS, self.frameCount, self.deviceTier and self.targetFPS when
\* it runs, and the values it captured when it was queued.
\* The onPoseDetected closure adds the device fields when
\* self.enableDetailedLogs is set at the time it runs; the closures of
\* onPoseServiceError and onPoseServiceLog send what they captured.
HostEvent(c) ==
    IF c.event = "onPoseDetected"
    THEN [event |-> c.event, processingTime |-> c.processingTime,
          timestamp |-> c.timestamp, detailed |-> enableDetailedLogs]
    ELSE IF c.event \in {"onPoseServiceError", "onPoseServiceLog", "onError"}
    THEN c
    ELSE [event |-> c.event,
          fps |-> currentFPS,
          frameCount |-> frameCount,
          autoAdjusted |-> c.autoAdjusted,
          newTargetFPS |-> c.newTargetFPS,
          reason |-> c.reason,
          deviceTier |-> deviceTier,
          recommendedFPS |-> targetFPS]

mainQueueRun ==
    /\ mainQueue # <<>>
    /\ delivered' = <<HostEvent(Head(mainQueue))>>
    /\ mainQueue' = Tail(mainQueue)
    /\ lastOp' = [NoOp EXCEPT !.op = "mainQueueRun"]
    /\ lastPose' = NoPose
    /\ UNCHANGED <<now, frameDuration, govVars, reportVars, poseVars,
                   admitLog, lastAdjustTime, adjustDirs, hostCalls, poseHistory>>

\* The props of the pose pipeline and of the FPS report.  A step of the host:
\* it hands nothing to the host and leaves the governor alone.
HostStep(op, arg) ==
    /\ hostCalls' = hostCalls + 1
    /\ delivered' = <<>>
    /\ lastOp' = [NoOp EXCEPT !.op = op, !.arg = arg]
    /\ lastPose' = NoPose
    /\ UNCHANGED <<now, frameDuration, govVars, mainQueue, admitLog,
                   lastAdjustTime, adjustDirs>>

\* The enablePoseDetection prop.
enablePoseDetection(enabled) ==
    /\ isPoseDetectionEnabled' = enabled
    /\ HostStep("enablePoseDetection", IF enabled THEN 1 ELSE 0)
    /\ UNCHANGED <<reportVars, processingQueue, enablePoseDataStreaming,
                   poseDataThrottleMs, lastPoseDataSentTime, enableDetailedLogs,
                   frameStartTimes, inFlight, poseHistory>>

\* The enablePoseDataStreaming prop.
setEnablePoseDataStreaming(enabled) ==
    /\ enablePoseDataStreaming' = enabled
    /\ poseHistory' = [poseHistory EXCEPT !.streamed = @ \/ enabled]
    /\ HostStep("setEnablePoseDataStreaming", IF enabled THEN 1 ELSE 0)
    /\ UNCHANGED <<reportVars, isPoseDetectionEnabled, processingQueue,
                   poseDataThrottleMs, lastPoseDataSentTime, enableDetailedLogs,
                   frameStartTimes, inFlight>>

\* The poseDataThrottleMs prop.
setPoseDataThrottleMs(throttleMs) ==
    /\ poseDataThrottleMs' = ClampPoseThrottle(throttleMs)
    /\ HostStep("setPoseDataThrottleMs", throttleMs)
    /\ UNCHANGED <<reportVars, isPoseDetectionEnabled, processingQueue,
                   enablePoseDataStreaming, lastPoseDataSentTime,
                   enableDetailedLogs, frameStartTimes, inFlight, poseHistory>>

\* The enableDetailedLogs prop.
setEnableDetailedLogs(enabled) ==
    /\ enableDetailedLogs' = enabled
    /\ HostStep("setEnableDetailedLogs", IF enabled THEN 1 ELSE 0)
    /\ UNCHANGED <<reportVars, isPoseDetectionEnabled, processingQueue,
                   enablePoseDataStreaming, poseDataThrottleMs,
                   lastPoseDataSentTime, frameStartTimes, inFlight, poseHistory>>

\* The fpsChangeThreshold prop: max(0.5, threshold).
setFPSChangeThreshold(threshold) ==
    /\ fpsChangeThreshold' = MaxQ(<<1, 2>>, threshold)
    /\ HostStep("setFPSChangeThreshold", threshold[1])
    /\ UNCHANGED <<lastReportedFPS, lastFPSReportTime, fpsReportThrottleMs,
                   poseVars, poseHistory>>

\* The fpsReportThrottleMs prop: max(100, throttleMs).
setFPSReportThrottleMs(throttleMs) ==
    /\ fpsReportThrottleMs' = Max(100, throttleMs)
    /\ HostStep("setFPSReportThrottleMs", throttleMs)
    /\ UNCHANGED <<lastReportedFPS, lastFPSReportTime, fpsChangeThreshold,
                   poseVars, poseHistory>>

\* switchCamera(): setCameraType with the other position, then
\* switchCameraInternal, which swaps the capture input or reports an error.
switchCamera(outcome) ==
    /\ mainQueue' = IF outcome = "switched" THEN mainQueue
                    ELSE Append(mainQueue, CameraErrorClosure(outcome))
    /\ hostCalls' = hostCalls + 1
    /\ delivered' = <<>>
    /\ lastOp' = [NoOp EXCEPT !.op = "switchCamera"]
    /\ lastPose' = NoPose
    /\ UNCHANGED <<now, frameDuration, govVars, reportVars, poseVars, admitLog,
                   lastAdjustTime, adjustDirs, poseHistory>>

\* A block of processingQueue runs: detectAsync(sampleBuffer:orientation:
\* timeStamps:) for the oldest dispatched frame.  The conversion to MPImage
\* fails, or the landmarker throws, or the landmarker accepts the frame.
detectAsync(outcome) ==
    /\ processingQueue # <<>>
    /\ LET ts == Head(processingQueue)
           logs == IF outcome = "conversionFailed"
                   THEN didLogMessage("Failed to create MPImage from sample buffer", "error")
                   ELSE IF outcome = "rejected"
                   THEN didLogMessage("Pose detection failed", "error")
                   ELSE <<>>
       IN  /\ processingQueue' = Tail(processingQueue)
           /\ frameStartTimes' = AfterDispatch(frameStartTimes, ts, now, outcome)
           /\ inFlight' = IF outcome = "accepted" THEN inFlight \cup {ts} ELSE inFlight
           /\ mainQueue' = mainQueue \o logs
           /\ lastPose' = [NoPose EXCEPT !.op = "detectAsync", !.ts = ts,
                                         !.outcome = outcome, !.startTime = now]
           /\ poseHistory' = [poseHistory EXCEPT
                                 !.dispatchFailed = @ \/ outcome # "accepted"]
    /\ delivered' = <<>>
    /\ lastOp' = [NoOp EXCEPT !.op = "detectAsync"]
    /\ UNCHANGED <<now, frameDuration, govVars, reportVars,
                   isPoseDetectionEnabled, enablePoseDataStreaming,
                   poseDataThrottleMs, lastPoseDataSentTime, enableDetailedLogs,
                   admitLog, lastAdjustTime, adjustDirs, hostCalls>>

\* The landmarker calls back for the request with timestamp ts:
\* poseLandmarker(_:didFinishDetection:timestampInMilliseconds:error:), which
\* calls didFailWithError or didDetectPose of the view.
didFinishDetection(ts, outcome) ==
    /\ ts \in inFlight
    /\ LET endTime == now
           startTime == StartTime(frameStartTimes, ts, endTime)
           processingTime == ProcessingTime(startTime, endTime)
           emit == /\ outcome = "result"
                   /\ PoseEmits(isPoseDetectionEnabled, enablePoseDataStreaming,
                                now, lastPoseDataSentTime, poseDataThrottleMs)
           closures == IF outcome = "result"
                       THEN IF emit THEN <<PoseDetectedClosure(processingTime, now)>>
                            ELSE <<>>
                       ELSE didFailWithError(ErrorDescription(outcome), processingTime)
       IN  /\ frameStartTimes' = RemoveRecord(frameStartTimes, ts)
           /\ inFlight' = inFlight \ {ts}
           /\ lastPoseDataSentTime' = IF emit THEN now ELSE lastPoseDataSentTime
           /\ mainQueue' = mainQueue \o closures
           /\ lastPose' = [op |-> "didFinishDetection", ts |-> ts,
                           outcome |-> outcome,
                           known |-> ts \in DOMAIN frameStartTimes,
                           startTime |-> startTime,
                           processingTime |-> processingTime,
                           enabled |-> isPoseDetectionEnabled,
                           streaming |-> enablePoseDataStreaming,
                           sinceLastSent |-> now - lastPoseDataSentTime,
                           throttleMs |-> poseDataThrottleMs,
                           emitted |-> emit]
           /\ poseHistory' = IF emit THEN [poseHistory EXCEPT !.lastEmit = now]
                             ELSE poseHistory
    /\ delivered' = <<>>
    /\ lastOp' = [NoOp EXCEPT !.op = "didFinishDetection"]
    /\ UNCHANGED <<now, frameDuration, govVars, reportVars,
                   isPoseDetectionEnabled, processingQueue,
                   enablePoseDataStreaming, poseDataThrottleMs,
                   enableDetailedLogs, admitLog, lastAdjustTime, adjustDirs,
                   hostCalls>>

\* A frame of the capture source, frameDuration after the previous one.
CameraFrame ==
    /\ now + frameDuration <= MaxTime
    /\ Len(mainQueue) <= MaxQueue
    /\ captureOutput(frameDuration)

\* A frame at an arbitrary spacing.
JitterFrame ==
    \E dt \in GateSteps :
        /\ now + dt <= GateTime
        /\ frameCount < MaxWindowFrames
        /\ captureOutput(dt)

\* A frame later than the previous one: the capture source stamps its frames
\* with advancing times.
AdvancingFrame ==
    \E dt \in LiveSteps :
        /\ now + dt <= GateTime
        /\ captureOutput(dt)

\* The targetFPS prop as the host sets it at mount, before the first frame.
MountSetTargetFPS ==
    /\ now = 0
    /\ hostCalls < MaxGateCalls
    /\ \E fps \in GateFpsInputs : setTargetFPS(fps)

\* Prop updates from the host, at any time.
HostSetTargetFPS ==
    /\ hostCalls < MaxGateCalls
    /\ \E fps \in GateFpsInputs : setTargetFPS(fps)

\* Prop updates from the host that land between two measurement windows.
WindowSetTargetFPS ==
    /\ hostCalls < MaxHostCalls
    /\ frameCount = 0
    /\ \E fps \in FpsInputs : setTargetFPS(fps)
WindowSetAutoAdjustFPS ==
    /\ hostCalls < MaxHostCalls
    /\ frameCount = 0
    /\ \E enabled \in BOOLEAN : setAutoAdjustFPS(enabled)

\* The capture source changes its frame duration between two windows.
rateChange(d) ==
    /\ frameDuration' = d
    /\ hostCalls' = hostCalls + 1
    /\ delivered' = <<>>
    /\ lastOp' = [NoOp EXCEPT !.op = "cameraRateChange"]
    /\ lastPose' = NoPose
    /\ UNCHANGED <<now, govVars, reportVars, poseVars, mainQueue, admitLog,
                   lastAdjustTime, adjustDirs, poseHistory>>

CameraRateChange ==
    /\ hostCalls < MaxReportCalls
    /\ frameCount = 0
    /\ \E d \in FrameDurations \ {frameDuration} : rateChange(d)

\* Twelve seconds of frames, with the capture rate and the autoAdjustFPS prop
\* changing between two measurement windows.
HistoryFrame ==
    /\ now + frameDuration <= HistoryTime
    /\ Len(mainQueue) <= MaxQueue
    /\ captureOutput(frameDuration)
HistoryRateChange ==
    /\ hostCalls < MaxHistoryCalls
    /\ frameCount = 0
    /\ \E d \in HistoryDurations \ {frameDuration} : rateChange(d)
HistorySetAutoAdjustFPS ==
    /\ hostCalls < MaxHistoryCalls
    /\ frameCount = 0
    /\ \E enabled \in BOOLEAN : setAutoAdjustFPS(enabled)

\* The FPS-report props, set between two measurement windows.
WindowSetFPSChangeThreshold ==
    /\ hostCalls < MaxReportCalls
    /\ frameCount = 0
    /\ \E threshold \in ChangeThresholdInputs : setFPSChangeThreshold(<<threshold, 1>>)
WindowSetFPSReportThrottleMs ==
    /\ hostCalls < MaxReportCalls
    /\ frameCount = 0
    /\ \E throttleMs \in ReportThrottleInputs : setFPSReportThrottleMs(throttleMs)

\* The three throttle props, set to any value in any order.
PropsSetPoseDataThrottleMs ==
    /\ hostCalls < MaxPropCalls
    /\ \E throttleMs \in PropThrottleInputs : setPoseDataThrottleMs(throttleMs)
PropsSetFPSChangeThreshold ==
    /\ hostCalls < MaxPropCalls
    /\ \E threshold \in PropThresholdInputs : setFPSChangeThreshold(threshold)
PropsSetFPSReportThrottleMs ==
    /\ hostCalls < MaxPropCalls
    /\ \E throttleMs \in PropThrottleInputs : setFPSReportThrottleMs(throttleMs)

\* captureOutput on the "pose.processing" queue and setTargetFPS on the
\* host's thread, with no lock between them: the frame handler in two steps,
\* the read of targetFPS by checkPerformanceAndAdjust and the rest, and the
\* prop update at any point.
RaceFrameReads ==
    /\ readTargetFPS = -1
    /\ now + frameDuration <= RaceTime
    /\ Len(mainQueue) <= MaxQueue
    /\ now' = now + frameDuration
    /\ readTargetFPS' = targetFPS
    /\ delivered' = <<>>
    /\ lastOp' = [NoOp EXCEPT !.op = "captureOutputReads"]
    /\ lastPose' = NoPose
    /\ UNCHANGED <<frameDuration, frameCount, lastFPSTime, currentFPS, targetFPS,
                   lastFrameTime, fpsHistory, lastPerformanceCheck,
                   isAutoAdjustEnabled, deviceTier, reportVars, poseVars,
                   mainQueue, admitLog, lastAdjustTime, adjustDirs, hostCalls,
                   poseHistory>>
RaceFrameWrites ==
    /\ readTargetFPS # -1
    /\ captureOutputReading(0, readTargetFPS)
    /\ readTargetFPS' = -1
RaceSetTargetFPS ==
    /\ hostCalls < MaxRaceCalls
    /\ \E fps \in FpsInputs : setTargetFPS(fps)

\* Six seconds of frames with one host call between two measurement windows:
\* a prop update or a camera switch.
TierFrame ==
    /\ now + frameDuration <= TierTime
    /\ Len(mainQueue) <= MaxQueue
    /\ captureOutput(frameDuration)
TierHostCall ==
    /\ hostCalls < MaxTierCalls
    /\ frameCount = 0
    /\ \/ \E fps \in FpsInputs : setTargetFPS(fps)
       \/ setAutoAdjustFPS(~isAutoAdjustEnabled)
       \/ enablePoseDetection(~isPoseDetectionEnabled)
       \/ setEnablePoseDataStreaming(~enablePoseDataStreaming)
       \/ setEnableDetailedLogs(~enableDetailedLogs)
       \/ \E outcome \in CameraSwitchOutcomes : switchCamera(outcome)

\* The pose pipeline: frames, prop updates, queue blocks and callbacks.  A
\* frame arrives while fewer than MaxOutstanding blocks, requests and
\* closures are waiting.
Outstanding ==
    Len(processingQueue) + Cardinality(DOMAIN frameStartTimes) + Len(mainQueue)
PoseFrame ==
    \E dt \in PoseSteps :
        /\ now + dt <= PoseStart + PoseTime
        /\ Outstanding < MaxOutstanding
        /\ captureOutput(dt)
\* The host updates a prop when its value changes.
HostEnablePoseDetection ==
    /\ hostCalls < MaxPoseCalls
    /\ enablePoseDetection(~isPoseDetectionEnabled)
HostSetEnablePoseDataStreaming ==
    /\ hostCalls < MaxPoseCalls
    /\ setEnablePoseDataStreaming(~enablePoseDataStreaming)
HostSetPoseDataThrottleMs ==
    /\ hostCalls < MaxPoseCalls
    /\ \E throttleMs \in PoseThrottleInputs :
           /\ ClampPoseThrottle(throttleMs) # poseDataThrottleMs
           /\ setPoseDataThrottleMs(throttleMs)
HostSetEnableDetailedLogs ==
    /\ hostCalls < MaxPoseCalls
    /\ setEnableDetailedLogs(~enableDetailedLogs)
ProcessingQueueRun == \E outcome \in DispatchOutcomes : detectAsync(outcome)
LandmarkerCallback ==
    \E ts \in inFlight, outcome \in CallbackOutcomes : didFinishDetection(ts, outcome)

Next ==
    \/ CameraFrame
    \/ WindowSetTargetFPS
    \/ WindowSetAutoAdjustFPS
    \/ mainQueueRun

Spec == Init /\ [][Next]_vars

NextGate ==
    \/ JitterFrame
    \/ HostSetTargetFPS

SpecGate == InitGate /\ [][NextGate]_vars

\* The capture session keeps delivering frames until the horizon.
NextLive ==
    \/ AdvancingFrame
    \/ MountSetTargetFPS

SpecLive == InitGate /\ [][NextLive]_vars /\ WF_vars(AdvancingFrame)

NextReport ==
    \/ CameraFrame
    \/ CameraRateChange
    \/ WindowSetFPSChangeThreshold
    \/ WindowSetFPSReportThrottleMs
    \/ mainQueueRun

SpecReport == Init /\ [][NextReport]_vars

NextHistory ==
    \/ HistoryFrame
    \/ HistoryRateChange
    \/ HistorySetAutoAdjustFPS
    \/ mainQueueRun

SpecHistory == InitHistory /\ [][NextHistory]_vars

NextProps ==
    \/ PropsSetPoseDataThrottleMs
    \/ PropsSetFPSChangeThreshold
    \/ PropsSetFPSReportThrottleMs
    \/ mainQueueRun

SpecProps == Init /\ [][NextProps]_vars

NextRace ==
    \/ RaceFrameReads
    \/ RaceFrameWrites
    \/ RaceSetTargetFPS
    \/ mainQueueRun

SpecRace == InitRace /\ [][NextRace]_vars

NextTier ==
    \/ TierFrame
    \/ TierHostCall
    \/ mainQueueRun

SpecTier == InitTier /\ [][NextTier]_vars

NextPose ==
    \/ PoseFrame
    \/ HostEnablePoseDetection
    \/ HostSetEnablePoseDataStreaming
    \/ HostSetPoseDataThrottleMs
    \/ HostSetEnableDetailedLogs
    \/ ProcessingQueueRun
    \/ LandmarkerCallback
    \/ mainQueueRun

SpecPose == InitPose /\ [][NextPose]_vars

\* ================================================================= claims
\* What a captureOutput step appended to the main queue.
Queued == SubSeq(mainQueue', Len(mainQueue) + 1, Len(mainQueue'))
AdjustmentsQueued == {i \in DOMAIN Queued : Queued[i].autoAdjusted}

\* The step is a frame arrival that closes a measurement window and passes
\* the guard of checkPerformanceAndAdjust with at least 5 samples.
FrameStep == lastOp'.op = "captureOutput"
WindowCloses == FrameStep /\ now' - lastFPSTime >= TicksPerSec
CycleRuns ==
    /\ WindowCloses
    /\ isAutoAdjustEnabled
    /\ now' - lastPerformanceCheck >= performanceCheckInterval * TicksPerSec
    /\ Len(fpsHistory') >= 5

\* mean(fpsHistory) / targetFPS as the cycle sees it: the history with the new
\* measurement pushed, the target before the cycle.  Compared by cross
\* multiplication: mean / target < p / q.
MeanOverTargetBelow(history, target, p, q) ==
    SumQ(history)[1] * q < p * SumQ(history)[2] * Len(history) * target
MeanOverTargetAbove(history, target, p, q) ==
    SumQ(history)[1] * q > p * SumQ(history)[2] * Len(history) * target

DegradationApplies ==
    MeanOverTargetBelow(fpsHistory', targetFPS, 4, 5) /\ targetFPS > 15
HeadroomApplies ==
    /\ ~DegradationApplies
    /\ MeanOverTargetAbove(fpsHistory', targetFPS, 19, 20)
    /\ targetFPS < recommendedFPS(deviceTier)

TierRange == 15 .. recommendedFPS(deviceTier)

\* C1: in every reachable state 1 <= targetFPS <= 60, whatever the host
\* passes to setTargetFPS and whatever the tuner or the tier default writes;
\* no error event is queued for an out-of-range value.
C1_TargetClamped ==
    /\ targetFPS \in 1 .. 60
    /\ \A i \in DOMAIN mainQueue :
           mainQueue[i].event \in {"onFrameProcessed", "onDeviceCapability"}

\* C1 witness: the host passed an out-of-range value and the clamp acted.
C1_Witness ==
    /\ lastOp.op = "setTargetFPS"
    /\ lastOp.arg = 0
    /\ targetFPS = 1

\* C2: while targetFPS stays fixed, at most targetFPS + 1 frames are admitted
\* in any window of one second.
C2_AdmissionRateBound == Len(admitLog) <= targetFPS + 1

\* C2 witness: the bound is met with equality at a host-set target of 3 (four
\* admissions 20 ticks apart) and the frame just seen was rejected.
C2_Witness ==
    /\ targetFPS = 3
    /\ Len(admitLog) = 4
    /\ lastOp.op = "captureOutput"
    /\ ~lastOp.admitted

\* C3 as stated: once adjustment cycles have run, targetFPS is within
\* [15, tier.recommendedFPS], host setTargetFPS calls included.
C3_Original == lastAdjustTime >= 0 => targetFPS \in TierRange

\* C3 amended: only a host setTargetFPS takes targetFPS out of
\* [15, tier.recommendedFPS]; an adjustment cycle that starts inside the range
\* ends inside it.
C3_TunerKeepsTierRange ==
    [][(targetFPS \in TierRange /\ targetFPS' \notin TierRange)
           => lastOp'.op = "setTargetFPS"]_vars

\* C3 witness: an adjustment lowered an in-range target to the floor.
C3_Witness ==
    /\ lastOp.decision = "lower"
    /\ targetFPS = 15
    /\ deviceTier \in {"medium", "high"}

C5_DegradationRule ==
    [][(CycleRuns /\ DegradationApplies) =>
          /\ targetFPS' = Max(15, targetFPS - 5)
          /\ Cardinality(AdjustmentsQueued) = 1
          /\ \A i \in AdjustmentsQueued :
                 /\ Queued[i].event = "onFrameProcessed"
                 /\ Queued[i].newTargetFPS = targetFPS'
                 /\ Queued[i].reason = "Performance optimization"]_vars

\* C5 witness: target 30 with five samples of 20.0 became 25.
C5_Witness ==
    /\ lastOp.decision = "lower"
    /\ targetFPS = 25
    /\ fpsHistory = <<<<20, 1>>, <<20, 1>>, <<20, 1>>, <<20, 1>>, <<20, 1>>>>

\* C6: when a cycle runs, the degradation rule does not apply,
\* mean(fpsHistory)/targetFPS > 0.95 and targetFPS < tier.recommendedFPS,
\* targetFPS becomes min(tier.recommendedFPS, targetFPS + 5) and exactly one
\* adjustment event is queued, with reason "Performance headroom available".
C6_HeadroomRule ==
    [][(CycleRuns /\ HeadroomApplies) =>
          /\ targetFPS' = Min(recommendedFPS(deviceTier), targetFPS + 5)
          /\ Cardinality(AdjustmentsQueued) = 1
          /\ \A i \in AdjustmentsQueued :
                 /\ Queued[i].event = "onFrameProcessed"
                 /\ Queued[i].newTargetFPS = targetFPS'
                 /\ Queued[i].reason = "Performance headroom available"]_vars

\* C6 witness: on a high-tier device a target of 20 met by 20 fps became 25.
C6_Witness ==
    /\ lastOp.decision = "raise"
    /\ deviceTier = "high"
    /\ targetFPS = 25
    /\ currentFPS = <<20, 1>>

\* C7: with auto-adjust disabled, or with fewer than 5 samples in fpsHistory
\* when the tuner looks at it, a frame arrival leaves targetFPS unchanged and
\* queues no event with autoAdjusted = true.
C7_TunerNoOp ==
    [][(FrameStep /\ (~isAutoAdjustEnabled \/ Len(fpsHistory') < 5)) =>
          /\ targetFPS' = targetFPS
          /\ AdjustmentsQueued = {}]_vars

\* C7 witness: a measurement was taken with auto-adjust disabled, 5 samples,
\* 5 seconds since the last cycle and an efficiency that would have lowered.
C7_Witness ==
    /\ ~isAutoAdjustEnabled
    /\ lastOp.measured
    /\ Len(fpsHistory) >= 5
    /\ now - lastPerformanceCheck >= performanceCheckInterval * TicksPerSec
    /\ targetFPS > 15
    /\ MeanOverTargetBelow(fpsHistory, targetFPS, 4, 5)

\* C8: when a cycle runs and neither rule applies, targetFPS is unchanged and
\* no adjustment event is queued.
C8_DeadBand ==
    [][(CycleRuns /\ ~DegradationApplies /\ ~HeadroomApplies) =>
          /\ targetFPS' = targetFPS
          /\ AdjustmentsQueued = {}]_vars

\* C8 witness: a cycle ran at an efficiency of exactly 0.8 (20 fps at a
\* target of 25) and left the target alone.
C8_Witness ==
    /\ lastOp.cycle
    /\ lastOp.decision = "none"
    /\ targetFPS = 25
    /\ Len(fpsHistory) >= 5
    /\ ~MeanOverTargetBelow(fpsHistory, targetFPS, 4, 5)
    /\ ~MeanOverTargetAbove(fpsHistory, targetFPS, 4, 5)

\* C9: two runs of the adjustment cycle, and so two adjustment events, are at
\* least 5 seconds apart, and an adjustment changes targetFPS by at most 5.
C9_RateLimited ==
    [][FrameStep =>
          /\ lastPerformanceCheck' # lastPerformanceCheck
                 => now' - lastPerformanceCheck >= performanceCheckInterval * TicksPerSec
          /\ AdjustmentsQueued # {}
                 => /\ lastAdjustTime = -1
                       \/ now' - lastAdjustTime >= performanceCheckInterval * TicksPerSec
                    /\ targetFPS' - targetFPS \in -5 .. 5]_vars

\* C9 witness: a medium-tier device left alone by the host was lowered twice
\* (30 to 25 to 20).
C9_Witness ==
    /\ deviceTier = "medium"
    /\ hostCalls = 0
    /\ lastOp.decision = "lower"
    /\ targetFPS = 20

\* C10: while the measured FPS stays constant and the host does not change
\* the target, the tuner never both raises and lowers targetFPS.
C10_NoOscillation == ~({"lower", "raise"} \subseteq adjustDirs)

\* ------------------------------------------------- pose pipeline claims
\* The onPoseDetected closures waiting on the main queue.
PoseEventsQueued == {i \in DOMAIN mainQueue : mainQueue[i].event = "onPoseDetected"}

\* The last step was a callback of the landmarker that carried a result.
ResultDelivered == lastPose.op = "didFinishDetection" /\ lastPose.outcome = "result"

\* C11: a pose result is emitted only if at least poseDataThrottleMs
\* milliseconds have passed since the previous emitted result, and emitting
\* sets lastPoseDataSentTime to the current time; so two onPoseDetected events
\* carry timestamps at least poseDataThrottleMs apart, and of the results that
\* arrive within less than the throttle interval only one is emitted.
C11_PoseThrottle ==
    /\ lastPoseDataSentTime = IF poseHistory.lastEmit = -1 THEN 0 ELSE poseHistory.lastEmit
    /\ (ResultDelivered /\ lastPose.emitted) =>
           /\ lastPose.sinceLastSent * 1000 >= lastPose.throttleMs * TicksPerSec
           /\ lastPoseDataSentTime = now
    /\ (ResultDelivered /\ ~lastPose.emitted) =>
           lastPoseDataSentTime = now - lastPose.sinceLastSent
    /\ \A i, j \in PoseEventsQueued :
           i < j => (mainQueue[j].timestamp - mainQueue[i].timestamp) * 1000
                        >= 16 * TicksPerSec

\* C11 witness: a result that arrived less than the throttle interval after an
\* emitted one was held back, with detection and streaming enabled.
C11_Witness ==
    /\ ResultDelivered
    /\ lastPose.enabled
    /\ lastPose.streaming
    /\ ~lastPose.emitted
    /\ poseHistory.lastEmit >= PoseStart
    /\ lastPose.sinceLastSent > 0

\* The onPoseDetected events handed to the host by the last step.
PoseEventsDelivered == {i \in DOMAIN delivered : delivered[i].event = "onPoseDetected"}

\* C12: an onPoseDetected event is emitted only when enablePoseDataStreaming
\* is set at the time the result is delivered and the throttle passes; while
\* streaming has never been enabled no onPoseDetected event is queued or
\* handed to the host, whatever results arrive.
C12_StreamingGate ==
    /\ (ResultDelivered /\ lastPose.emitted) =>
           /\ lastPose.streaming
           /\ enablePoseDataStreaming
           /\ lastPose.sinceLastSent * 1000 >= lastPose.throttleMs * TicksPerSec
    /\ ~poseHistory.streamed =>
           /\ PoseEventsQueued = {}
           /\ PoseEventsDelivered = {}
           /\ poseHistory.lastEmit = -1

\* C12 witness: with streaming never enabled, a result arrived while detection
\* was enabled and the throttle interval had passed, and nothing was emitted.
C12_Witness ==
    /\ ~poseHistory.streamed
    /\ ResultDelivered
    /\ lastPose.enabled
    /\ lastPose.sinceLastSent * 1000 >= lastPose.throttleMs * TicksPerSec
    /\ ~lastPose.emitted
    /\ mainQueue = <<>>

\* ---------------------------------------------------- FPS report claims
\* The closures of regular FPS reports a captureOutput step queued.
RegularReports == {i \in DOMAIN Queued : ~Queued[i].autoAdjusted}

\* The gate of the FPS report as the closing frame sees it: the measurement
\* against the last reported value, the time against the last report.
ChangeGateOpen == LeQ(fpsChangeThreshold, AbsQ(SubQ(currentFPS', lastReportedFPS)))
TimeGateOpen == (now' - lastFPSReportTime) * 1000 >= fpsReportThrottleMs * TicksPerSec
ReportStateUpdated == lastReportedFPS' = currentFPS' /\ lastFPSReportTime' = now'

\* C13 as stated: a measurement is reported exactly when the change gate or
\* the time gate is open; on emit lastReportedFPS and lastFPSReportTime are
\* both updated, on suppression neither is.
C13_Original ==
    [][FrameStep =>
          /\ Cardinality(RegularReports) =
                 IF WindowCloses /\ (ChangeGateOpen \/ TimeGateOpen) THEN 1 ELSE 0
          /\ IF RegularReports # {}
             THEN ReportStateUpdated
             ELSE UNCHANGED <<lastReportedFPS, lastFPSReportTime>>]_vars

\* C13 amended: a measurement is reported exactly when the change gate or the
\* time gate is open; lastReportedFPS and lastFPSReportTime are both updated
\* when the report or an adjustment event is emitted on that measurement, and
\* both are left alone when neither is emitted.
C13_ReportThrottle ==
    [][FrameStep =>
          /\ Cardinality(RegularReports) =
                 IF WindowCloses /\ (ChangeGateOpen \/ TimeGateOpen) THEN 1 ELSE 0
          /\ IF RegularReports # {} \/ AdjustmentsQueued # {}
             THEN ReportStateUpdated
             ELSE UNCHANGED <<lastReportedFPS, lastFPSReportTime>>]_vars

\* C13 witness: with a report interval of 2000 ms the first measurement, one
\* second after the last report time, was reported because it changed by at
\* least the threshold.
C13_Witness ==
    /\ lastOp.reported
    /\ fpsReportThrottleMs = 2000
    /\ Len(fpsHistory) = 1
    /\ now * 1000 < fpsReportThrottleMs * TicksPerSec
    /\ lastFPSReportTime = now
    /\ LeQ(fpsChangeThreshold, lastReportedFPS)

\* C14: every change of targetFPS made on a frame arrival (by the auto-tuner)
\* queues exactly one adjustment event carrying the new target, whatever the
\* FPS-report gate decided and whatever fpsChangeThreshold,
\* fpsReportThrottleMs, lastReportedFPS and lastFPSReportTime are.
C14_AdjustmentBypassesThrottle ==
    [][(FrameStep /\ targetFPS' # targetFPS) =>
          /\ Cardinality(AdjustmentsQueued) = 1
          /\ \A i \in AdjustmentsQueued :
                 /\ Queued[i].event = "onFrameProcessed"
                 /\ Queued[i].newTargetFPS = targetFPS'
                 /\ i = Len(Queued)]_vars

\* C14 witness: an adjustment was made on a measurement whose regular report
\* the throttle held back (both gates closed).
C14_Witness ==
    /\ lastOp.measured
    /\ ~lastOp.reported
    /\ lastOp.decision = "lower"
    /\ fpsReportThrottleMs = 2000
    /\ mainQueue # <<>>
    /\ mainQueue[Len(mainQueue)].autoAdjusted

\* C15: results delivered after pose detection has been disabled are
\* discarded, and while pose detection is disabled no onPoseDetected event is
\* handed to the host.
C15_NoPoseEventWhileDisabled ==
    /\ (ResultDelivered /\ ~lastPose.enabled) => ~lastPose.emitted
    /\ PoseEventsDelivered # {} => isPoseDetectionEnabled

\* C16: a frame that arrives while pose detection is disabled is not handed
\* to processingQueue, and only frames handed to processingQueue are submitted
\* to the landmarker; enablePoseDetection itself leaves the pending blocks,
\* the in-flight records and the landmarker's requests as they are.
C16_DisableStopsAdmission ==
    [][/\ (FrameStep /\ ~isPoseDetectionEnabled) => processingQueue' = processingQueue
       /\ \A ts \in inFlight' \ inFlight :
              processingQueue # <<>> /\ ts = Head(processingQueue)
       /\ lastOp'.op = "enablePoseDetection" =>
              UNCHANGED <<processingQueue, frameStartTimes, inFlight>>]_vars

\* C16 witness: after a disable, with a request dispatched before it still in
\* flight, a frame passed the admission gate and was not dispatched.
C16_Witness ==
    /\ lastOp.op = "captureOutput"
    /\ lastOp.admitted
    /\ ~isPoseDetectionEnabled
    /\ processingQueue = <<>>
    /\ inFlight # {}
    /\ DOMAIN frameStartTimes = inFlight

\* The last step was a callback of the landmarker that carried a failure.
FailureDelivered == lastPose.op = "didFinishDetection" /\ lastPose.outcome # "result"

DispatchFailed == lastPose.op = "detectAsync" /\ lastPose.outcome # "accepted"

\* C18: a dispatch failure leaves no record for its correlation timestamp,
\* leaves the other records, the landmarker's requests, the governor, the
\* report throttle and the enablement as they were, and queues no
\* onPoseServiceError event; frames keep being dispatched after it.
C18_DispatchFailureLeavesNoState ==
    [][DispatchFailed' =>
          /\ lastPose'.ts \notin DOMAIN frameStartTimes'
          /\ DOMAIN frameStartTimes' = DOMAIN frameStartTimes \ {lastPose'.ts}
          /\ \A k \in DOMAIN frameStartTimes' : frameStartTimes'[k] = frameStartTimes[k]
          /\ processingQueue' = Tail(processingQueue)
          /\ \A i \in DOMAIN Queued : Queued[i].event = "onPoseServiceLog"
          /\ UNCHANGED <<now, govVars, reportVars, isPoseDetectionEnabled, inFlight>>]_vars

\* C18 witness: after a failed dispatch a later frame was dispatched and
\* accepted by the landmarker, and only its record is held.
C18_Witness ==
    /\ poseHistory.dispatchFailed
    /\ lastPose.op = "detectAsync"
    /\ lastPose.outcome = "accepted"
    /\ DOMAIN frameStartTimes = {lastPose.ts}
    /\ inFlight = {lastPose.ts}

\* The step is a callback of the landmarker.
CallbackStep == lastPose'.op = "didFinishDetection"

\* C19: the processing time a callback reports is its arrival time minus the
\* start time recorded at dispatch under the same correlation timestamp, in
\* milliseconds; the record exists when the callback arrives and is removed by
\* it; a closure queued by the callback carries that processing time.
C19_ProcessingTime ==
    [][CallbackStep =>
          /\ lastPose'.ts \in DOMAIN frameStartTimes
          /\ lastPose'.processingTime =
                 Q((now' - frameStartTimes[lastPose'.ts]) * 1000, TicksPerSec)
          /\ lastPose'.ts \notin DOMAIN frameStartTimes'
          /\ \A i \in DOMAIN Queued :
                 Queued[i].processingTime = lastPose'.processingTime]_vars

\* C19 witness: a result that arrived two ticks after its dispatch was emitted
\* with a processing time of 2000 / TicksPerSec milliseconds.
C19_Witness ==
    /\ ResultDelivered
    /\ lastPose.emitted
    /\ now - lastPose.startTime = 2
    /\ mainQueue[Len(mainQueue)].event = "onPoseDetected"
    /\ mainQueue[Len(mainQueue)].processingTime = Q(2000, TicksPerSec)
    /\ lastPose.ts \notin DOMAIN frameStartTimes

\* C20: whichever in-flight request the landmarker calls back for, the
\* callback takes the start time of its own record, removes that record and
\* no other, and leaves the start times of the other requests unchanged.
C20_AnyOrder ==
    [][CallbackStep =>
          /\ lastPose'.known
          /\ lastPose'.startTime = frameStartTimes[lastPose'.ts]
          /\ frameStartTimes' = [k \in DOMAIN frameStartTimes \ {lastPose'.ts}
                                    |-> frameStartTimes[k]]
          /\ inFlight' = inFlight \ {lastPose'.ts}]_vars

\* C20 witness: the callback of the later request arrived first, while the
\* earlier request, dispatched at another time, is still in flight.
C20_Witness ==
    /\ lastPose.op = "didFinishDetection"
    /\ lastPose.known
    /\ \E k \in inFlight :
           /\ k < lastPose.ts
           /\ k \in DOMAIN frameStartTimes
           /\ frameStartTimes[k] < lastPose.startTime
    /\ lastPose.processingTime = Q((now - lastPose.startTime) * 1000, TicksPerSec)

\* C21: frameStartTimes holds exactly the correlation timestamps the
\* landmarker accepted and has not called back for; a record appears only in a
\* detectAsync step that the landmarker accepts, and disappears only in the
\* callback for its timestamp (or in the failed dispatch of its own
\* timestamp): nothing else evicts it, however long the callback stays out.
C21_InFlightMap ==
    [][/\ DOMAIN frameStartTimes' = inFlight'
       /\ \A k \in DOMAIN frameStartTimes' \ DOMAIN frameStartTimes :
              /\ lastPose'.op = "detectAsync"
              /\ lastPose'.outcome = "accepted"
              /\ lastPose'.ts = k
              /\ frameStartTimes'[k] = now
       /\ \A k \in DOMAIN frameStartTimes \ DOMAIN frameStartTimes' :
              /\ lastPose'.op \in {"didFinishDetection", "detectAsync"}
              /\ lastPose'.ts = k
       /\ \A k \in DOMAIN frameStartTimes \cap DOMAIN frameStartTimes' :
              frameStartTimes'[k] = frameStartTimes[k]]_vars

\* C21 witness: the record of the first request is still held at the end of
\* the run, after a later request was dispatched and called back.
C21_Witness ==
    /\ now = PoseStart + PoseTime
    /\ lastPose.op = "didFinishDetection"
    /\ \E k \in DOMAIN frameStartTimes :
           /\ frameStartTimes[k] = PoseStart + 1
           /\ k < lastPose.ts
           /\ k \in inFlight
    /\ processingQueue = <<>>

\* C22: fpsHistory is a first-in first-out buffer of capacity 10: it never
\* holds more than 10 readings, a frame that closes a measurement window
\* appends the new reading and keeps the 10 most recent readings in arrival
\* order, and a frame that closes no window leaves it alone.
MostRecent(readings, capacity) ==
    SubSeq(readings, Max(1, Len(readings) - capacity + 1), Len(readings))
C22_BoundedHistory ==
    [][/\ Len(fpsHistory') <= 10
       /\ WindowCloses => fpsHistory' = MostRecent(Append(fpsHistory, currentFPS'), 10)
       /\ FrameStep /\ ~WindowCloses => fpsHistory' = fpsHistory]_vars

\* Twelve windows measured at three capture rates: the two oldest readings
\* have left the buffer.
C22_Witness ==
    /\ now = HistoryTime
    /\ lastOp.op = "captureOutput" /\ lastOp.measured
    /\ Len(fpsHistory) = 10
    /\ fpsHistory[1] = Q(3, 1) /\ fpsHistory[5] = Q(2, 1) /\ fpsHistory[10] = Q(1, 1)

\* C23: setAutoAdjustFPS(false) leaves fpsHistory empty, and
\* setAutoAdjustFPS(true) leaves fpsHistory as it was; so false followed by
\* true with no measurement between leaves it empty.
C23_DisableClearsHistory ==
    [][lastOp'.op = "setAutoAdjustFPS" =>
           fpsHistory' = IF lastOp'.arg = 0 THEN <<>> ELSE fpsHistory]_vars

\* After two measured windows the host sets false and then true with no
\* frame between: the history is empty.
C23_Witness ==
    /\ now = 2 * TicksPerSec
    /\ hostCalls = 2
    /\ lastOp.op = "setAutoAdjustFPS" /\ lastOp.arg = 1
    /\ isAutoAdjustEnabled
    /\ fpsHistory = <<>>

\* C24: when auto-adjustment is re-enabled fpsHistory is empty, however many
\* measurement windows elapsed while it was disabled.
C24_EmptyOnReenable ==
    [][~isAutoAdjustEnabled /\ isAutoAdjustEnabled' => fpsHistory' = <<>>]_vars

\* C25: the measured FPS changes only on a frame arrival that finds at least
\* 1.0 s elapsed since the window start; it becomes the number of frames
\* counted in the window, the closing frame included, divided by the elapsed
\* seconds, and the counter restarts at 0 with the window starting at that
\* frame.  Any other frame adds one to the counter and changes nothing else.
C25_MeasuredFPS ==
    [][IF FrameStep
       THEN IF now' - lastFPSTime >= TicksPerSec
            THEN /\ currentFPS'[1] * (now' - lastFPSTime)
                        = (frameCount + 1) * TicksPerSec * currentFPS'[2]
                 /\ frameCount' = 0
                 /\ lastFPSTime' = now'
            ELSE /\ frameCount' = frameCount + 1
                 /\ lastFPSTime' = lastFPSTime
                 /\ currentFPS' = currentFPS
       ELSE UNCHANGED <<currentFPS, frameCount, lastFPSTime>>]_vars

\* Six frames 10 ticks apart, the sixth exactly 1.0 s after the window start:
\* the measured FPS is 6.
C25_Witness ==
    /\ now = TicksPerSec
    /\ lastOp.op = "captureOutput" /\ lastOp.measured
    /\ admitLog = <<10, 20, 30, 40, 50, 60>>
    /\ currentFPS = Q(6, 1)
    /\ frameCount = 0 /\ lastFPSTime = now

\* C26: every frame is measured, whether or not the gate admits it and
\* whether or not pose detection is enabled: the counter, the window start
\* and the measured FPS after a frame depend only on their values before it
\* and on the arrival time, not on targetFPS.
C26_MeasurementUnconditional ==
    [][FrameStep =>
           LET elapsed == now' - lastFPSTime
               closes == elapsed >= TicksPerSec
           IN  /\ frameCount' = IF closes THEN 0 ELSE frameCount + 1
               /\ lastFPSTime' = IF closes THEN now' ELSE lastFPSTime
               /\ currentFPS' = IF closes
                                THEN Q((frameCount + 1) * TicksPerSec, elapsed)
                                ELSE currentFPS]_vars

\* With pose detection disabled, two frames in a row are rejected by the gate
\* and both are counted.
C26_Witness ==
    /\ lastOp.op = "captureOutput"
    /\ ~lastOp.admitted
    /\ ~isPoseDetectionEnabled
    /\ hostCalls = 0
    /\ frameCount = 2
    /\ lastFPSTime = PoseStart + 1

\* C27: whatever values the host passes to the throttle setters (zero,
\* negative, tiny), poseDataThrottleMs stays at least 16, fpsChangeThreshold
\* at least 0.5 and fpsReportThrottleMs at least 100, and a setter call
\* queues no event for the host: it raises no error.
PropSetters == {"setPoseDataThrottleMs", "setFPSChangeThreshold", "setFPSReportThrottleMs"}
C27_ThrottleFloors ==
    [][/\ poseDataThrottleMs' >= 16
       /\ LeQ(<<1, 2>>, fpsChangeThreshold')
       /\ fpsReportThrottleMs' >= 100
       /\ lastOp'.op \in PropSetters => mainQueue' = mainQueue]_vars

\* The three setters called with a negative value, zero and a tiny value.
C27_Witness ==
    /\ hostCalls = 3
    /\ lastOp.op = "setFPSChangeThreshold" /\ lastOp.arg = -1
    /\ poseDataThrottleMs = 16
    /\ fpsChangeThreshold = <<1, 2>>
    /\ fpsReportThrottleMs = 100

\* C28: the frame handler and the host's prop updates are serialized: a
\* setTargetFPS issued while an adjustment cycle is between reading targetFPS
\* and writing the new target is not overwritten by a value computed from the
\* old target.  After the handler the target is what the host set (the
\* handler ordered first) or what the handler computes from the target the
\* host set (the host ordered first).
SerialTarget ==
    LET decision == IF lastOp'.cycle
                    THEN Decision(fpsHistory', targetFPS, recommendedFPS(deviceTier))
                    ELSE "none"
    IN  CASE decision = "lower" -> ClampFPS(LoweredTarget(targetFPS))
          [] decision = "raise" -> ClampFPS(RaisedTarget(targetFPS, recommendedFPS(deviceTier)))
          [] OTHER -> targetFPS
C28_Serialized ==
    [][FrameStep => targetFPS' \in {targetFPS, SerialTarget}]_vars

\* C29: for every core count and memory size the tier is High when
\* cores >= 6 and memory >= 4*10^9 bytes, else Medium when cores >= 4 and
\* memory >= 3*10^9 bytes, else Low; the recommended FPS is 60 for High, 30
\* for Medium, 15 for Low and 30 for Unknown.  Checked on the readings the
\* device-capability closure captured at construction.
CapabilitiesQueued ==
    {i \in DOMAIN mainQueue : mainQueue[i].event = "onDeviceCapability"}
TierOf(cores, memory) ==
    CASE cores >= 6 /\ memory >= 4000 -> "high"
      [] cores >= 4 /\ memory >= 3000 /\ ~(cores >= 6 /\ memory >= 4000) -> "medium"
      [] OTHER -> "low"
C29_TierClassification ==
    /\ \A i \in CapabilitiesQueued :
           deviceTier = TierOf(mainQueue[i].processorCount, mainQueue[i].physicalMemory)
    /\ deviceTier \in Tiers
    /\ recommendedFPS("high") = 60
    /\ recommendedFPS("medium") = 30
    /\ recommendedFPS("low") = 15
    /\ recommendedFPS("unknown") = 30

\* Six cores with 3*10^9 bytes: Medium, with 30 frames a second recommended.
C29_Witness ==
    /\ \E i \in CapabilitiesQueued :
           mainQueue[i].processorCount = 6 /\ mainQueue[i].physicalMemory = 3000
    /\ deviceTier = "medium"
    /\ targetFPS = recommendedFPS(deviceTier)
    /\ targetFPS = 30

\* C30: the device tier is set at construction and no operation changes it
\* (frames with auto-adjustment, setTargetFPS, the toggles, a camera switch),
\* and one device-capability event reaches the host: the closure queued at
\* construction is the only one, no step queues another, and it is delivered
\* once.
C30_TierImmutable ==
    [][/\ deviceTier' = deviceTier
       /\ \A i \in DOMAIN Queued : Queued[i].event # "onDeviceCapability"
       /\ Cardinality(CapabilitiesQueued) <= 1
       /\ (\E i \in DOMAIN delivered' : delivered'[i].event = "onDeviceCapability")
              <=> (CapabilitiesQueued # {} /\ lastOp'.op = "mainQueueRun"
                   /\ Head(mainQueue).event = "onDeviceCapability")]_vars

\* After an adjustment, with the capability event delivered and a camera
\* switch that failed, the tier is still the one of construction.
C30_Witness ==
    /\ now = TierTime
    /\ deviceTier = "medium"
    /\ targetFPS = 25
    /\ lastAdjustTime >= 0
    /\ hostCalls = 1
    /\ CapabilitiesQueued = {}
    /\ \E i \in DOMAIN mainQueue : mainQueue[i].event = "onError"

\* C31: after construction, and until the host sets targetFPS or the tuner
\* adjusts it, the target is the tier's recommended FPS (60 on High, 30 on
\* Medium, 15 on Low) and the admission gate admits a frame exactly when
\* 1/recommended seconds have passed since the last admitted frame.
TierDefault ==
    CASE deviceTier = "high" -> 60
      [] deviceTier = "medium" -> 30
      [] deviceTier = "low" -> 15
      [] OTHER -> 30
C32_DefaultIs30 ==
    (hostCalls = 0 /\ lastAdjustTime = -1) => targetFPS = 30

\* C33: enableDetailedLogs gates the service-log events and nothing else: a
\* step hands an onPoseServiceLog closure to the main queue only while the
\* flag is set, a failed dispatch hands one over whenever it is set, and the
\* admission decision, the FPS report, the adjustment, the dispatch and the
\* onPoseDetected emission of a step are determined by the other fields
\* alone.
LogsQueued == {i \in DOMAIN Queued : Queued[i].event = "onPoseServiceLog"}
FrameEventsDelivered ==
    {i \in DOMAIN delivered : delivered[i].event = "onFrameProcessed"}
C34_FrameCountIsTotal ==
    \A i \in FrameEventsDelivered : delivered[i].frameCount = now \div frameDuration

C36_ReportBeforeAdjustment ==
    [][/\ FrameStep =>
              /\ Cardinality(RegularReports) <= 1
              /\ Cardinality(AdjustmentsQueued) <= 1
              /\ Len(Queued) = Cardinality(RegularReports) + Cardinality(AdjustmentsQueued)
              /\ \A i \in RegularReports, j \in AdjustmentsQueued : i < j
              /\ ~WindowCloses => Queued = <<>>
              /\ AdjustmentsQueued # {} =>
                     lastReportedFPS' = currentFPS' /\ lastFPSReportTime' = now'
       /\ lastOp'.op = "mainQueueRun" =>
              /\ mainQueue' = Tail(mainQueue)
              /\ Len(delivered') = 1
              /\ delivered'[1].event = Head(mainQueue).event
              /\ delivered'[1].autoAdjusted = Head(mainQueue).autoAdjusted]_vars

\* The regular report of a measurement has been delivered and the adjustment
\* event of the same measurement is next in the main queue.
C36_Witness ==
    /\ lastOp.op = "mainQueueRun"
    /\ delivered # <<>>
    /\ delivered[1].event = "onFrameProcessed" /\ ~delivered[1].autoAdjusted
    /\ Len(mainQueue) = 1
    /\ mainQueue[1].autoAdjusted
    /\ lastAdjustTime = now
    /\ lastFPSReportTime = now
    /\ lastReportedFPS = currentFPS

\* C37: while auto-adjust is disabled targetFPS changes only through
\* setTargetFPS, which leaves it at the given value clamped to [1, 60]: no
\* frame moves it, however the measurements compare with it.
C37_TargetHeldWhileDisabled ==
    [][/\ (~isAutoAdjustEnabled /\ lastOp'.op # "setTargetFPS") => targetFPS' = targetFPS
       /\ lastOp'.op = "setTargetFPS" =>
              targetFPS' = Max(1, Min(lastOp'.arg, 60))]_vars

\* Auto-adjust was disabled and the target set to 20; ten windows at one
\* frame a second later the target is still 20.
C37_Witness ==
    /\ ~isAutoAdjustEnabled
    /\ hostCalls = 2
    /\ targetFPS = 20
    /\ deviceTier = "high"
    /\ lastOp.op = "captureOutput" /\ lastOp.measured
    /\ Len(fpsHistory) = 10
    /\ currentFPS = Q(1, 1)
    /\ lastAdjustTime = -1

\* C38: a change of the target leaves the measurement and the throttles
\* alone.  setTargetFPS changes none of fpsHistory, frameCount, lastFPSTime,
\* lastFrameTime and the throttle parameters; a frame on which the tuner
\* changes the target keeps the whole history with the new reading pushed,
\* and moves the counter, the window start and lastFrameTime only as the
\* measurement and the admission gate of that frame do.
C38_TargetChangeKeepsHistory ==
    [][/\ lastOp'.op = "setTargetFPS" =>
              UNCHANGED <<fpsHistory, frameCount, lastFPSTime, lastFrameTime,
                          poseDataThrottleMs, fpsReportThrottleMs, fpsChangeThreshold>>
       /\ (FrameStep /\ targetFPS' # targetFPS) =>
              /\ fpsHistory' = MostRecent(Append(fpsHistory, currentFPS'), 10)
              /\ frameCount' = 0
              /\ lastFPSTime' = now'
              /\ lastFrameTime' = IF lastOp'.admitted THEN now' ELSE lastFrameTime
              /\ UNCHANGED <<poseDataThrottleMs, fpsReportThrottleMs,
                             fpsChangeThreshold>>]_vars

\* The host set the target to 20 after the first windows; the cycle at 5 s
\* lowers it to 15 on the five readings measured under both targets.
C38_Witness ==
    /\ deviceTier = "high"
    /\ hostCalls = 1
    /\ targetFPS = 15
    /\ lastOp.op = "captureOutput" /\ lastOp.decision = "lower"
    /\ Len(fpsHistory) = 5
    /\ now = 5 * TicksPerSec

\* C39: the admission gate comes before the enablement test: a frame that
\* passes the interval test moves lastFrameTime to its arrival time whether
\* or not pose detection is enabled, a rejected frame leaves lastFrameTime
\* alone, and a frame is handed to processingQueue exactly when it passed the
\* gate and pose detection was enabled at its arrival.
IntervalPassed == (now' - lastFrameTime) * targetFPS' >= TicksPerSec
C39_GateBeforeEnablement ==
    [][FrameStep =>
           /\ lastFrameTime' = IF IntervalPassed THEN now' ELSE lastFrameTime
           /\ processingQueue' =
                  IF IntervalPassed /\ isPoseDetectionEnabled
                  THEN Append(processingQueue, CurrentTimeMs(now'))
                  ELSE processingQueue]_vars

\* With pose detection disabled from the start, a frame after the first
\* passes the gate: lastFrameTime moves and nothing is dispatched.
C39_Witness ==
    /\ ~isPoseDetectionEnabled
    /\ hostCalls = 0
    /\ lastOp.op = "captureOutput" /\ lastOp.admitted /\ ~lastOp.dispatched
    /\ now > PoseStart + 1
    /\ lastFrameTime = now
    /\ processingQueue = <<>>

\* C40: admission does not starve.  For every target a frame that arrives at
\* least 1/targetFPS after the last admitted frame is admitted, and a
\* rejected frame is less than 1/targetFPS (at most one second) after the
\* last admitted one; while frames keep arriving with advancing times, a
\* rejected frame with a second of the horizon left is followed by an
\* admitted one.
AdmittedWhenDue ==
    [][FrameStep =>
           /\ targetFPS' \in 1..60
           /\ (now' - lastFrameTime) * targetFPS' >= TicksPerSec =>
                  lastOp'.admitted /\ lastFrameTime' = now'
           /\ ~lastOp'.admitted =>
                  /\ (now' - lastFrameTime') * targetFPS' < TicksPerSec
                  /\ now' - lastFrameTime' < TicksPerSec]_vars
RejectedWithTimeLeft ==
    /\ lastOp.op = "captureOutput" /\ ~lastOp.admitted
    /\ now + TicksPerSec <= GateTime
C40_AdmissionNeverStarves ==
    /\ AdmittedWhenDue
    /\ RejectedWithTimeLeft ~> (lastOp.op = "captureOutput" /\ lastOp.admitted)

\* With the target at its floor of 1, a frame exactly one second after the
\* last admitted frame is admitted.
C40_Witness ==
    /\ targetFPS = 1
    /\ hostCalls = 1
    /\ lastOp.op = "captureOutput" /\ lastOp.admitted
    /\ lastOp.arg = TicksPerSec
    /\ now = 2 * TicksPerSec
    /\ lastFrameTime = now
    /\ admitLog = <<TicksPerSec, 2 * TicksPerSec>>

====
